---- MODULE Spec2Model ----
(***************************************************************************)
(* Model of src/block.rs of the simples ledger: the HashedBlock integrity  *)
(* contract (compute_hash / verify_hash / verify), SignedBlock signing,    *)
(* create_genesis_block and GenesisBuilder.                                *)
(*                                                                         *)
(* Byte vectors (Vec<u8>, the protobuf `bytes` fields) are records         *)
(* [len, id]: len is the number of bytes, id the content, written as the   *)
(* sequence of integers the bytes were computed from.  The hash and the    *)
(* signature primitives of the crypto module are injective in this model:  *)
(* the digest of a message is identified by the message's serialization.   *)
(***************************************************************************)
EXTENDS Integers, Sequences, FiniteSets, TLC

VARIABLES
    hb,              \* the HashedBlock under test: [signed_block, hash]
    hashed_content,  \* history: [set, signed_block] content at the last compute_hash
    changed,         \* history: a content-changing operation happened since then
    ret,             \* the last call on hb and what it returned
    nops,            \* number of mutating calls made on hb so far
    builder,         \* GenesisBuilder: [transfers, consumed]
    built,           \* what GenesisBuilder::build did and returned
    genesis          \* the last create_genesis_block call and its result

vars == <<hb, hashed_content, changed, ret, nops, builder, built, genesis>>

blockVars == <<hb, hashed_content, changed, ret, nops>>
genesisVars == <<builder, built, genesis>>

(***************************************************************************)
(* Bounds of the model.                                                    *)
(***************************************************************************)
MaxOps == 4          \* mutating calls on the HashedBlock
MaxTxs == 2          \* transactions pushed into a block
MaxTransfers == 2    \* add_transfer calls on a GenesisBuilder

(***************************************************************************)
(* Input sets.                                                             *)
(***************************************************************************)
Keys == {1, 2}       \* key pairs: public key k, secret key k
Times == {0, 1}      \* seconds since the epoch
Tokens == {1, 2}     \* token amounts

(***************************************************************************)
(* crypto: digests, signatures, keys.                                      *)
(***************************************************************************)
DigestLen == 32
SignatureLen == 64

Bytes(n, content) == [len |-> n, id |-> content]

\* Vec::new(): the value of an unset protobuf bytes field
EmptyBytes == Bytes(0, <<>>)

\* HashDigest(..).0.to_vec()
DigestToVec(d) == Bytes(DigestLen, d)

\* HashDigest::from_bytes: only exactly DigestLen bytes decode
from_bytes(b) ==
    IF b.len = DigestLen
    THEN [ok |-> TRUE, digest |-> b.id]
    ELSE [ok |-> FALSE, digest |-> <<>>]

\* HashDigest::from_u64(0): the all-zero sentinel digest
ZeroDigest == <<0>>

\* hash(b"test123"), hash(b"test123."): digests of two byte strings
HashTest123 == <<1, 1>>
HashTest123Dot == <<1, 2>>

Digests == {ZeroDigest, HashTest123, HashTest123Dot}

\* a byte vector one byte short of a digest
ShortBytes == Bytes(DigestLen - 1, HashTest123)

\* hash(bytes): injective, the digest is identified by the bytes hashed
Hash(msg) == <<2>> \o msg

\* sign(secret_key, bytes)
Sign(sk, msg) == Bytes(SignatureLen, <<sk>> \o msg)

\* gen_keypair(): pair k is (public key k, secret key k)
PublicOf(sk) == sk

(***************************************************************************)
(* Deterministic serialization (protobuf write_to_bytes).                  *)
(***************************************************************************)
RECURSIVE Concat(_)
Concat(ss) == IF ss = <<>> THEN <<>> ELSE Head(ss) \o Concat(Tail(ss))

SerBytes(b) == <<b.len, Len(b.id)>> \o b.id

SerBool(b) == IF b THEN 1 ELSE 0

SerTransfer(t) == <<t.op_index, t.tokens, t.source_pk, t.destination_pk>>

SerCommit(c) ==
    <<c.bounty, SerBool(c.has_bounty_pk), Len(c.transfers)>>
        \o Concat([i \in 1..Len(c.transfers) |-> SerTransfer(c.transfers[i])])

SerTransaction(tx) ==
    SerCommit(tx.commit) \o <<Len(tx.signatures)>>
        \o Concat([i \in 1..Len(tx.signatures) |-> SerBytes(tx.signatures[i])])

SerBlock(b) ==
    SerBytes(b.previous) \o <<b.timestamp, Len(b.transactions)>>
        \o Concat([i \in 1..Len(b.transactions) |-> SerTransaction(b.transactions[i])])

SerSignedBlock(sb) == SerBlock(sb.block) \o SerBytes(sb.signature)

(***************************************************************************)
(* tx: transactions, their builder and their signature check.              *)
(***************************************************************************)
Transfer(op, tokens, source, destination) ==
    [op_index |-> op, tokens |-> tokens,
     source_pk |-> source, destination_pk |-> destination]

\* Transaction::new()
EmptyTx ==
    [commit |-> [bounty |-> 0, has_bounty_pk |-> FALSE, transfers |-> <<>>],
     signatures |-> <<>>]

\* tx.verify_signatures(): every transfer is covered by a signature of its
\* source key over the commit as it stands
verify_signatures(tx) ==
    IF \A i \in 1..Len(tx.commit.transfers) :
          \E j \in 1..Len(tx.signatures) :
             /\ tx.signatures[j].len = SignatureLen
             /\ \E sk \in Keys :
                  /\ PublicOf(sk) = tx.commit.transfers[i].source_pk
                  /\ tx.signatures[j] = Sign(sk, SerCommit(tx.commit))
    THEN "Ok"
    ELSE "InvalidSignature"

\* tx.clear_signatures()
clear_signatures(tx) == [tx EXCEPT !.signatures = <<>>]

\* TransactionBuilder::new()
NewTransactionBuilder == [transfers |-> <<>>, signers |-> <<>>]

\* TransactionBuilder::add_transfer(sk, pk, destination, tokens, op_num)
BuilderAddTransfer(tb, sk, pk, destination, tokens, op_num) ==
    [transfers |-> Append(tb.transfers, Transfer(op_num, tokens, pk, destination)),
     signers |-> IF \E i \in 1..Len(tb.signers) : tb.signers[i] = sk
                 THEN tb.signers ELSE Append(tb.signers, sk)]

\* TransactionBuilder::build(): signs the commit with every signer's key
BuilderBuild(tb) ==
    LET commit == [bounty |-> 0, has_bounty_pk |-> FALSE, transfers |-> tb.transfers]
    IN  [commit |-> commit,
         signatures |-> [i \in 1..Len(tb.signers) |->
                            Sign(tb.signers[i], SerCommit(commit))]]

\* the transfer of the test: 10 tokens from key 1 to key 2, signed by key 1
SignedTransferTx ==
    BuilderBuild(BuilderAddTransfer(NewTransactionBuilder, 1, PublicOf(1), 2, 10, 0))

UnsignedTransferTx == clear_signatures(SignedTransferTx)

\* transactions pushed into a block under test
BlockTxs == {EmptyTx, SignedTransferTx, UnsignedTransferTx}

\* transactions handed to create_genesis_block: every bounty setting, with
\* no transfer or one, unsigned or signed by any key over the final commit
GenesisCommits ==
    {[bounty |-> b, has_bounty_pk |-> h, transfers |-> t] :
        b \in {0, 1}, h \in BOOLEAN, t \in {<<>>, <<Transfer(0, 10, 1, 2)>>}}

GenesisTxs ==
    {[commit |-> c, signatures |-> s] :
        c \in GenesisCommits, s \in {<<>>}}
    \cup
    UNION {{[commit |-> c, signatures |-> <<Sign(sk, SerCommit(c))>>] : sk \in Keys} :
              c \in GenesisCommits}

(***************************************************************************)
(* HashedBlock / SignedBlock.                                              *)
(***************************************************************************)
\* HashedBlock::new(): every field unset
NewHashedBlock ==
    [signed_block |->
        [block |-> [previous |-> EmptyBytes, timestamp |-> 0, transactions |-> <<>>],
         signature |-> EmptyBytes],
     hash |-> EmptyBytes]

\* hash_message(signed_block)
hash_message(sb) == Hash(SerSignedBlock(sb))

\* sign_message(secret_key, block)
sign_message(sk, b) == Sign(sk, SerBlock(b))

\* HashedBlockExt::compute_hash with the wrong message hashed: the Block
\* instead of the SignedBlock
compute_hash_of_block(h) ==
    LET hash_digest == Hash(SerBlock(h.signed_block.block))
    IN  [block |-> [h EXCEPT !.hash = DigestToVec(hash_digest)],
         digest |-> hash_digest]

\* HashedBlockExt::compute_hash: the block after the call and the digest returned
compute_hash(h) ==
    LET hash_digest == hash_message(h.signed_block)
    IN  [block |-> [h EXCEPT !.hash = DigestToVec(hash_digest)],
         digest |-> hash_digest]

\* HashedBlockExt::decode_hash
decode_hash(h) == from_bytes(h.hash)


\* HashedBlockExt::set_previous_block
set_previous_block(h, d) ==
    [h EXCEPT !.signed_block.block.previous = DigestToVec(d)]

\* HashedBlockExt::get_block
get_block(h) == h.signed_block.block

\* HashedBlockExt::decode_previous
decode_previous(h) == from_bytes(get_block(h).previous)

\* verify_hash without the comparison of the digests
verify_hash_no_compare(h) ==
    IF ~from_bytes(h.hash).ok
    THEN [status |-> "DecodeError", checks |-> <<"decode_hash">>]
    ELSE IF ~from_bytes(get_block(h).previous).ok
    THEN [status |-> "DecodeError", checks |-> <<"decode_hash", "decode_previous">>]
    ELSE [status |-> "Ok", checks |-> <<"decode_hash", "decode_previous">>]

\* verify_hash without the decoding of the predecessor pointer
verify_hash_no_previous(h) ==
    IF ~from_bytes(h.hash).ok
    THEN [status |-> "DecodeError", checks |-> <<"decode_hash">>]
    ELSE IF hash_message(h.signed_block) = from_bytes(h.hash).digest
    THEN [status |-> "Ok", checks |-> <<"decode_hash", "compare">>]
    ELSE [status |-> "InvalidHash", checks |-> <<"decode_hash", "compare">>]

\* HashedBlockExt::verify_hash: the result and the steps it went through
verify_hash(h) ==
    IF ~from_bytes(h.hash).ok
    THEN [status |-> "DecodeError", checks |-> <<"decode_hash">>]
    ELSE IF ~from_bytes(get_block(h).previous).ok
    THEN [status |-> "DecodeError", checks |-> <<"decode_hash", "decode_previous">>]
    ELSE IF hash_message(h.signed_block) = from_bytes(h.hash).digest
    THEN [status |-> "Ok", checks |-> <<"decode_hash", "decode_previous", "compare">>]
    ELSE [status |-> "InvalidHash",
          checks |-> <<"decode_hash", "decode_previous", "compare">>]

\* SignedBlockExt::verify_signature
verify_signature(sb) == "Ok"

\* the loop of HashedBlockExt::verify over the transactions, from index i
RECURSIVE VerifyTxs(_, _, _)
VerifyTxs(txs, i, checks) ==
    IF i > Len(txs)
    THEN [status |-> "Ok", checks |-> checks, failed_tx |-> 0]
    ELSE IF verify_signatures(txs[i]) # "Ok"
    THEN [status |-> verify_signatures(txs[i]),
          checks |-> Append(checks, "tx"), failed_tx |-> i]
    ELSE VerifyTxs(txs, i + 1, Append(checks, "tx"))

\* verify with the transactions checked before the hash
verify_txs_first(h) ==
    IF VerifyTxs(get_block(h).transactions, 1, <<>>).status # "Ok"
    THEN VerifyTxs(get_block(h).transactions, 1, <<>>)
    ELSE IF verify_hash(h).status # "Ok"
    THEN [status |-> verify_hash(h).status,
          checks |-> VerifyTxs(get_block(h).transactions, 1, <<>>).checks
                        \o <<"verify_hash">>,
          failed_tx |-> 0]
    ELSE [status |-> verify_signature(h.signed_block),
          checks |-> VerifyTxs(get_block(h).transactions, 1, <<>>).checks
                        \o <<"verify_hash", "verify_signature">>,
          failed_tx |-> 0]

\* HashedBlockExt::verify
verify(h) ==
    IF verify_hash(h).status # "Ok"
    THEN [status |-> verify_hash(h).status, checks |-> <<"verify_hash">>, failed_tx |-> 0]
    ELSE IF verify_signature(h.signed_block) # "Ok"
    THEN [status |-> verify_signature(h.signed_block),
          checks |-> <<"verify_hash", "verify_signature">>, failed_tx |-> 0]
    ELSE VerifyTxs(get_block(h).transactions, 1,
                   <<"verify_hash", "verify_signature">>)

(***************************************************************************)
(* Genesis.                                                                *)
(***************************************************************************)
\* the HashedBlock create_genesis_block builds, hashed after every field is set
GenesisBlock(tx, now) ==
    LET g1 == [NewHashedBlock EXCEPT
                  !.signed_block.block.transactions = Append(@, tx)]
        g2 == [g1 EXCEPT !.signed_block.block.previous = DigestToVec(ZeroDigest)]
        g3 == [g2 EXCEPT !.signed_block.block.timestamp = now]
    IN  compute_hash(g3).block

\* create_genesis_block with the signatures checked before the bounty
create_genesis_block_signatures_first(tx, now) ==
    IF verify_signatures(tx) # "Ok"
    THEN [status |-> verify_signatures(tx), built |-> FALSE, block |-> NewHashedBlock]
    ELSE IF tx.commit.bounty # 0 \/ tx.commit.has_bounty_pk
    THEN [status |-> "GenesisBounty", built |-> FALSE, block |-> NewHashedBlock]
    ELSE [status |-> "Ok", built |-> TRUE, block |-> GenesisBlock(tx, now)]

\* create_genesis_block without the check of the transaction's signatures
create_genesis_block_no_signatures(tx, now) ==
    IF tx.commit.bounty # 0 \/ tx.commit.has_bounty_pk
    THEN [status |-> "GenesisBounty", built |-> FALSE, block |-> NewHashedBlock]
    ELSE [status |-> "Ok", built |-> TRUE, block |-> GenesisBlock(tx, now)]

\* create_genesis_block with the bounty test inverted
create_genesis_block_bounty_inverted(tx, now) ==
    IF tx.commit.bounty = 0 \/ tx.commit.has_bounty_pk
    THEN [status |-> "GenesisBounty", built |-> FALSE, block |-> NewHashedBlock]
    ELSE IF verify_signatures(tx) # "Ok"
    THEN [status |-> verify_signatures(tx), built |-> FALSE, block |-> NewHashedBlock]
    ELSE [status |-> "Ok", built |-> TRUE, block |-> GenesisBlock(tx, now)]

\* create_genesis_block with the hash computed before the timestamp is set
create_genesis_block_hash_early(tx, now) ==
    IF tx.commit.bounty # 0 \/ tx.commit.has_bounty_pk
    THEN [status |-> "GenesisBounty", built |-> FALSE, block |-> NewHashedBlock]
    ELSE IF verify_signatures(tx) # "Ok"
    THEN [status |-> verify_signatures(tx), built |-> FALSE, block |-> NewHashedBlock]
    ELSE [status |-> "Ok", built |-> TRUE,
          block |-> [GenesisBlock(tx, 0) EXCEPT !.signed_block.block.timestamp = now]]

\* create_genesis_block(tx), at wall-clock time now: the result, whether a
\* HashedBlock was built, and the block returned
create_genesis_block(tx, now) ==
    IF tx.commit.bounty # 0 \/ tx.commit.has_bounty_pk
    THEN [status |-> "GenesisBounty", built |-> FALSE, block |-> NewHashedBlock]
    ELSE IF verify_signatures(tx) # "Ok"
    THEN [status |-> verify_signatures(tx), built |-> FALSE, block |-> NewHashedBlock]
    ELSE [status |-> "Ok", built |-> TRUE, block |-> GenesisBlock(tx, now)]

\* GenesisBuilder::new()
NewGenesisBuilder == [transfers |-> <<>>, consumed |-> FALSE]

\* GenesisBuilder::add_transfer
add_transfer(gb, destination, tokens) ==
    [gb EXCEPT !.transfers = Append(@, <<destination, tokens>>)]

\* one iteration of the loop of GenesisBuilder::build with op_num left as it is
BuildStepNoIncrement(acc, transfer, secret_key, public_key) ==
    [tx_builder |-> BuilderAddTransfer(acc.tx_builder, secret_key, public_key,
                                       transfer[1], transfer[2], acc.op_num),
     calls |-> Append(acc.calls, [secret_key |-> secret_key,
                                  public_key |-> public_key,
                                  destination |-> transfer[1],
                                  tokens |-> transfer[2],
                                  op_num |-> acc.op_num]),
     op_num |-> acc.op_num]

\* one iteration of the loop of GenesisBuilder::build: the call on the
\* transaction builder, then op_num += 1 (a u32; the model stays far below 2^32)
BuildStep(acc, transfer, secret_key, public_key) ==
    [tx_builder |-> BuilderAddTransfer(acc.tx_builder, secret_key, public_key,
                                       transfer[1], transfer[2], acc.op_num),
     calls |-> Append(acc.calls, [secret_key |-> secret_key,
                                  public_key |-> public_key,
                                  destination |-> transfer[1],
                                  tokens |-> transfer[2],
                                  op_num |-> acc.op_num]),
     op_num |-> acc.op_num + 1]

\* the loop of GenesisBuilder::build over self.transfers, from transfer i on
RECURSIVE BuildLoop(_, _, _, _, _)
BuildLoop(transfers, i, acc, secret_key, public_key) ==
    IF i > Len(transfers)
    THEN acc
    ELSE BuildLoop(transfers, i + 1,
                   BuildStep(acc, transfers[i], secret_key, public_key),
                   secret_key, public_key)

\* GenesisBuilder::build with the key pair gen_keypair() returned
build(gb, secret_key, now) ==
    LET public_key == PublicOf(secret_key)
        loop == BuildLoop(gb.transfers, 1,
                          [tx_builder |-> NewTransactionBuilder,
                           calls |-> <<>>, op_num |-> 0],
                          secret_key, public_key)
        genesis_tx == BuilderBuild(loop.tx_builder)
        res == create_genesis_block(genesis_tx, now)
    IN  [done |-> TRUE,
         keypair |-> secret_key,
         now |-> now,
         calls |-> loop.calls,
         tx |-> genesis_tx,
         panicked |-> verify_signatures(genesis_tx) # "Ok" \/ res.status # "Ok",
         block |-> res.block]

NotBuilt ==
    [done |-> FALSE, keypair |-> 0, now |-> 0, calls |-> <<>>, tx |-> EmptyTx,
     panicked |-> FALSE, block |-> NewHashedBlock]

NoGenesis ==
    [called |-> FALSE, tx |-> EmptyTx, now |-> 0, status |-> "",
     built |-> FALSE, block |-> NewHashedBlock]

(***************************************************************************)
(* The state machine of one HashedBlock.                                   *)
(***************************************************************************)
Returned(op, status, digest, checks, failed_tx) ==
    [op |-> op, status |-> status, digest |-> digest,
     checks |-> checks, failed_tx |-> failed_tx]

Void(op) == Returned(op, "Ok", <<>>, <<>>, 0)

\* a call that mutates the SignedBlock of hb into that of h2
Mutate(op, h2, listed) ==
    /\ nops < MaxOps
    /\ nops' = nops + 1
    /\ hb' = h2
    /\ ret' = Void(op)
    /\ changed' = (changed \/ (/\ listed
                                /\ hashed_content.set
                                /\ h2.signed_block # hb.signed_block))
    /\ UNCHANGED <<hashed_content, genesisVars>>

\* hashed_block.compute_hash()
ComputeHash ==
    /\ nops < MaxOps
    /\ nops' = nops + 1
    /\ hb' = compute_hash(hb).block
    /\ ret' = Returned("compute_hash", "Ok", compute_hash(hb).digest, <<>>, 0)
    /\ hashed_content' = [set |-> TRUE, signed_block |-> hb.signed_block]
    /\ changed' = FALSE
    /\ UNCHANGED genesisVars

\* hashed_block.set_previous_block(&d)
SetPreviousBlock ==
    \E d \in Digests : Mutate("set_previous_block", set_previous_block(hb, d), TRUE)

\* hashed_block.mut_signed_block().mut_block().set_previous(bytes)
SetPrevious ==
    \E b \in {ShortBytes} :
        Mutate("set_previous", [hb EXCEPT !.signed_block.block.previous = b], FALSE)

\* hashed_block.mut_signed_block().mut_block().set_timestamp(t)
SetTimestamp ==
    \E t \in Times :
        Mutate("set_timestamp", [hb EXCEPT !.signed_block.block.timestamp = t], TRUE)

\* hashed_block.mut_signed_block().mut_block().mut_transactions().push(tx)
PushTransaction ==
    \E tx \in BlockTxs :
        /\ Len(get_block(hb).transactions) < MaxTxs
        /\ Mutate("push_transaction",
                  [hb EXCEPT !.signed_block.block.transactions = Append(@, tx)], TRUE)

\* SignedBlockExt::sign: the signed block after the call
sign(sb, secret_key) ==
    [sb EXCEPT !.signature = sign_message(secret_key, sb.block)]

\* hashed_block.mut_signed_block().sign(&sk)
SignBlock ==
    \E sk \in Keys :
        Mutate("sign", [hb EXCEPT !.signed_block = sign(@, sk)], TRUE)

\* hashed_block.verify_hash()
VerifyHashCall ==
    /\ ret' = Returned("verify_hash", verify_hash(hb).status, <<>>,
                       verify_hash(hb).checks, 0)
    /\ UNCHANGED <<hb, hashed_content, changed, nops, genesisVars>>

\* hashed_block.verify()
VerifyCall ==
    /\ ret' = Returned("verify", verify(hb).status, <<>>,
                       verify(hb).checks, verify(hb).failed_tx)
    /\ UNCHANGED <<hb, hashed_content, changed, nops, genesisVars>>

(***************************************************************************)
(* The state machine of genesis construction.                              *)
(***************************************************************************)
\* builder.add_transfer(destination, tokens)
AddTransfer ==
    \E destination \in Keys, tokens \in Tokens :
        /\ ~builder.consumed
        /\ Len(builder.transfers) < MaxTransfers
        /\ builder' = add_transfer(builder, destination, tokens)
        /\ UNCHANGED <<built, genesis, blockVars>>

\* builder.build(): consumes the builder
Build ==
    \E secret_key \in Keys, now \in Times :
        /\ ~builder.consumed
        /\ built' = build(builder, secret_key, now)
        /\ builder' = [builder EXCEPT !.consumed = TRUE]
        /\ UNCHANGED <<genesis, blockVars>>

\* create_genesis_block(tx)
CreateGenesis ==
    \E tx \in GenesisTxs, now \in Times :
        /\ genesis' = [called |-> TRUE, tx |-> tx, now |-> now,
                       status |-> create_genesis_block(tx, now).status,
                       built |-> create_genesis_block(tx, now).built,
                       block |-> create_genesis_block(tx, now).block]
        /\ UNCHANGED <<builder, built, blockVars>>

(***************************************************************************)
(* Specifications.                                                         *)
(***************************************************************************)
Init ==
    /\ hb = NewHashedBlock
    /\ hashed_content = [set |-> FALSE, signed_block |-> NewHashedBlock.signed_block]
    /\ changed = FALSE
    /\ ret = Void("new")
    /\ nops = 0
    /\ builder = NewGenesisBuilder
    /\ built = NotBuilt
    /\ genesis = NoGenesis

Next ==
    \/ ComputeHash
    \/ SetPreviousBlock
    \/ SetPrevious
    \/ SetTimestamp
    \/ PushTransaction
    \/ SignBlock
    \/ VerifyHashCall
    \/ VerifyCall

Spec == Init /\ [][Next]_vars

NextGenesis ==
    \/ AddTransfer
    \/ Build
    \/ CreateGenesis

SpecGenesis == Init /\ [][NextGenesis]_vars

(***************************************************************************)
(* Properties.                                                             *)
(***************************************************************************)
\* the block has not been touched since the last compute_hash
JustHashed == hashed_content.set /\ hb.signed_block = hashed_content.signed_block

\* the indices of the transactions of h whose signatures do not verify
InvalidTxs(h) ==
    {i \in 1..Len(get_block(h).transactions) :
        verify_signatures(get_block(h).transactions[i]) # "Ok"}

Min(S) == CHOOSE x \in S : \A y \in S : x <= y

\* n checks of a transaction, after the hash and the block signature
TxChecks(n) == <<"verify_hash", "verify_signature">> \o [i \in 1..n |-> "tx"]

\* the stored signature is a signature of some key over the Block as it stands
SignatureValid(sb) == \E sk \in Keys : sb.signature = sign_message(sk, sb.block)

\* C1: compute_hash on a block whose predecessor pointer is a well-formed
\* digest, whatever the timestamp, transactions and signature, makes the
\* verify_hash that follows it succeed, and the digest it returns is the
\* digest decode_hash yields.
C1_ComputeThenVerify ==
    (ret.op = "compute_hash" /\ decode_previous(hb).ok) =>
        /\ verify_hash(hb).status = "Ok"
        /\ decode_hash(hb) = [ok |-> TRUE, digest |-> ret.digest]

C1_Witness ==
    /\ ret.op = "compute_hash"
    /\ decode_previous(hb).ok
    /\ get_block(hb).transactions # <<>>
    /\ hb.signed_block.signature # EmptyBytes
    /\ verify_hash(hb).status = "Ok"

\* C2 as stated, for a block whose predecessor pointer is a well-formed
\* digest: once an operation of the list (set_previous_block, timestamp,
\* transactions, sign) has changed the content after a compute_hash,
\* verify_hash fails with the hash-mismatch error until compute_hash is
\* called again.
C2_Original ==
    (changed /\ decode_previous(hb).ok) => verify_hash(hb).status = "InvalidHash"

\* C2 as amended: after a compute_hash, in every state whose SignedBlock
\* differs from the content that was hashed, verify_hash fails, with the
\* hash-mismatch error when the predecessor pointer is a well-formed digest
\* and with the decode error otherwise; so it succeeds again only once the
\* content is the hashed content again, by compute_hash or by a change back.
C2_StaleHashFails ==
    (hashed_content.set /\ hb.signed_block # hashed_content.signed_block) =>
        verify_hash(hb).status =
            IF decode_previous(hb).ok THEN "InvalidHash" ELSE "DecodeError"

C2_Witness ==
    /\ changed
    /\ ret.op = "sign"
    /\ hb.signed_block # hashed_content.signed_block
    /\ hb.signed_block.block = hashed_content.signed_block.block
    /\ verify_hash(hb).status = "InvalidHash"

\* C3: verify succeeds exactly when verify_hash, verify_signature and every
\* transaction's verify_signatures succeed; it checks the hash, then the
\* block signature, then the transactions in list order, and returns the
\* first failure without making any later check.
C3_VerifyOrder ==
    ret.op = "verify" =>
        /\ (ret.status = "Ok") <=>
              /\ verify_hash(hb).status = "Ok"
              /\ verify_signature(hb.signed_block) = "Ok"
              /\ InvalidTxs(hb) = {}
        /\ verify_hash(hb).status # "Ok" =>
              /\ ret.status = verify_hash(hb).status
              /\ ret.checks = <<"verify_hash">>
        /\ (verify_hash(hb).status = "Ok"
              /\ verify_signature(hb.signed_block) # "Ok") =>
              /\ ret.status = verify_signature(hb.signed_block)
              /\ ret.checks = <<"verify_hash", "verify_signature">>
        /\ (verify_hash(hb).status = "Ok"
              /\ verify_signature(hb.signed_block) = "Ok"
              /\ InvalidTxs(hb) # {}) =>
              /\ ret.status = "InvalidSignature"
              /\ ret.failed_tx = Min(InvalidTxs(hb))
              /\ ret.checks = TxChecks(Min(InvalidTxs(hb)))
        /\ ret.status = "Ok" =>
              ret.checks = TxChecks(Len(get_block(hb).transactions))

\* a block with a stale hash and an invalid transaction reports the hash error
C3_Witness ==
    /\ ret.op = "verify"
    /\ verify_hash(hb).status = "InvalidHash"
    /\ InvalidTxs(hb) # {}
    /\ ret.status = "InvalidHash"

\* a block with two invalid transactions reports the first
C3_FirstInvalidTx ==
    /\ ret.op = "verify"
    /\ InvalidTxs(hb) = {1, 2}
    /\ ret.status = "InvalidSignature"
    /\ ret.failed_tx = 1

\* C9: verify_hash returns the decode error, and compares no digest, when
\* the stored hash or the predecessor pointer is not exactly 32 bytes long,
\* the stored hash being decoded first: a block never hashed fails, and a
\* block with a malformed predecessor fails even right after compute_hash.
C9_DecodeErrors ==
    ret.op = "verify_hash" =>
        /\ hb.hash.len # DigestLen =>
              /\ ret.status = "DecodeError"
              /\ ret.checks = <<"decode_hash">>
        /\ (hb.hash.len = DigestLen /\ get_block(hb).previous.len # DigestLen) =>
              /\ ret.status = "DecodeError"
              /\ ret.checks = <<"decode_hash", "decode_previous">>
        /\ ~hashed_content.set => ret.status = "DecodeError"

\* verify_hash right after compute_hash on a block whose predecessor is short
C9_Witness ==
    /\ ret.op = "verify_hash"
    /\ JustHashed
    /\ get_block(hb).previous = ShortBytes
    /\ ret.status = "DecodeError"
    /\ ret.checks = <<"decode_hash", "decode_previous">>

\* C10: verify rejects every block whose stored signature is not a valid
\* signature over its current Block.
C10_VerifyRejectsBadSignature ==
    (ret.op = "verify" /\ ~SignatureValid(hb.signed_block)) => ret.status # "Ok"

\* C4: create_genesis_block fails with the genesis policy error, and builds
\* no block, for every transaction with a nonzero bounty or a
\* bounty-recipient key, whether or not its signatures verify.
C4_BountyRejected ==
    (genesis.called
        /\ (genesis.tx.commit.bounty # 0 \/ genesis.tx.commit.has_bounty_pk)) =>
        /\ genesis.status = "GenesisBounty"
        /\ ~genesis.built

C4_Witness ==
    /\ genesis.called
    /\ genesis.tx.commit.has_bounty_pk
    /\ verify_signatures(genesis.tx) # "Ok"
    /\ genesis.status = "GenesisBounty"

\* C5: create_genesis_block fails, and builds no block, for every
\* transaction whose signatures do not verify, also one with zero bounty and
\* no bounty-recipient key.
C5_InvalidTxRejected ==
    (genesis.called /\ verify_signatures(genesis.tx) # "Ok") =>
        /\ genesis.status # "Ok"
        /\ ~genesis.built

\* the signed transfer with its signatures cleared
C5_Witness ==
    /\ genesis.called
    /\ genesis.tx = clear_signatures(SignedTransferTx)
    /\ create_genesis_block(SignedTransferTx, genesis.now).status = "Ok"
    /\ genesis.status = "InvalidSignature"

\* C6 as stated: a transaction with zero bounty and no bounty-recipient key
\* always yields success, whatever its transfers and signatures.
C6_Original ==
    (genesis.called
        /\ genesis.tx.commit.bounty = 0 /\ ~genesis.tx.commit.has_bounty_pk) =>
        genesis.status = "Ok"

\* C6 as amended: a transaction with zero bounty and no bounty-recipient key
\* whose signatures verify always yields success; the empty transaction does.
C6_ValidTxAccepted ==
    (genesis.called
        /\ genesis.tx.commit.bounty = 0 /\ ~genesis.tx.commit.has_bounty_pk
        /\ verify_signatures(genesis.tx) = "Ok") =>
        /\ genesis.status = "Ok"
        /\ genesis.built

C6_Witness ==
    /\ genesis.called
    /\ genesis.tx = EmptyTx
    /\ genesis.status = "Ok"

\* C7: the block a successful create_genesis_block returns holds exactly the
\* transaction passed in, has the all-zero predecessor and the timestamp of
\* the call, and its stored hash is the digest of its SignedBlock as
\* returned, so that verify_hash and verify succeed on it.
C7_GenesisBlock ==
    (genesis.called /\ genesis.status = "Ok") =>
        /\ genesis.built
        /\ get_block(genesis.block).transactions = <<genesis.tx>>
        /\ decode_previous(genesis.block) = [ok |-> TRUE, digest |-> ZeroDigest]
        /\ get_block(genesis.block).timestamp = genesis.now
        /\ decode_hash(genesis.block) =
              [ok |-> TRUE, digest |-> hash_message(genesis.block.signed_block)]
        /\ verify_hash(genesis.block).status = "Ok"
        /\ verify(genesis.block).status = "Ok"

C7_Witness ==
    /\ genesis.called
    /\ genesis.status = "Ok"
    /\ genesis.tx = SignedTransferTx
    /\ genesis.now # 0

\* C8: build hands the transaction builder one transfer per add_transfer
\* call, in the order of the calls, with that call's destination and amount,
\* with operation indices 0, 1, ..., N-1, all from and signed by the one key
\* pair of the build call; the block returned has the all-zero predecessor.
C8_BuildTransfers ==
    built.done =>
        /\ ~built.panicked
        /\ Len(built.calls) = Len(builder.transfers)
        /\ \A i \in 1..Len(built.calls) :
              built.calls[i] = [secret_key |-> built.keypair,
                                public_key |-> PublicOf(built.keypair),
                                destination |-> builder.transfers[i][1],
                                tokens |-> builder.transfers[i][2],
                                op_num |-> i - 1]
        /\ Len(built.tx.commit.transfers) = Len(builder.transfers)
        /\ \A i \in 1..Len(built.tx.commit.transfers) :
              built.tx.commit.transfers[i] =
                  Transfer(i - 1, builder.transfers[i][2],
                           PublicOf(built.keypair), builder.transfers[i][1])
        /\ \A j \in 1..Len(built.tx.signatures) :
              built.tx.signatures[j] =
                  Sign(built.keypair, SerCommit(built.tx.commit))
        /\ get_block(built.block).transactions = <<built.tx>>
        /\ decode_previous(built.block) = [ok |-> TRUE, digest |-> ZeroDigest]

C8_Witness ==
    /\ built.done
    /\ Len(builder.transfers) = 2
    /\ builder.transfers[1] # builder.transfers[2]
    /\ built.calls[2].op_num = 1
    /\ built.calls[1].secret_key = built.calls[2].secret_key

\* a build with no transfer at all
C8_EmptyBuild ==
    /\ built.done
    /\ builder.transfers = <<>>
    /\ ~built.panicked

====
